---- MODULE Spec2Model ----
(***************************************************************************)
(* Model of the roleset-indexed accessibility tree of                      *)
(* indextree-method-structural-nav: the arena tree built by from_root_node,*)
(* the index build (build_rolesets) of the boolean flavor (Tree) and of    *)
(* the count flavor (TreeCount), and the plain, pruned and parallel        *)
(* queries of the TreeTraversal trait.                                     *)
(***************************************************************************)
EXTENDS Integers, Sequences, FiniteSets, TLC

\* ------------------------------------------------------------------------
\* Bounds of the model
\* ------------------------------------------------------------------------
MaxNodes == 4

NumRoles == 3

MaxBuilds == 2

MaxThreads == 2

\* ------------------------------------------------------------------------
\* Roles and role sets
\* ------------------------------------------------------------------------
\* atspi_common::Role: a finite enumeration, ordered by its integer code.
Roles == 0 .. (NumRoles - 1)

\* Option::None for a NodeId (indextree ids are non-zero indices).
None == 0

\* RoleSet::default(): no role.
RoleSetDefault == {}

\* RoleSet::from(role): exactly one role.
RoleSetFrom(role) == {role}

\* roleset |= other
RoleSetUnion(a, b) == a \cup b

\* RoleSet::contains(other): every role of other is in set.
RoleSetContains(set, other) == other \subseteq set

RECURSIVE RoleIterFrom(_, _)
RoleIterFrom(set, r) ==
    IF r >= NumRoles THEN <<>>
    ELSE (IF r \in set THEN <<r>> ELSE <<>>) \o RoleIterFrom(set, r + 1)

\* RoleSet::role_iter(): the roles of the set, ascending by code.
RoleIter(set) == RoleIterFrom(set, 0)

\* RoleSetVecCount::default(): all counts zero, empty RoleSet (field .1).
RoleSetVecCountDefault == [cnt |-> [r \in Roles |-> 0], set |-> RoleSetDefault]

\* RoleSetVecCount::add(role): one more occurrence, and the role's bit.
RoleSetVecCountAdd(rc, role) ==
    [cnt |-> [rc.cnt EXCEPT ![role] = @ + 1], set |-> RoleSetUnion(rc.set, RoleSetFrom(role))]

\* RoleSetVecCount::contains(other): tested on the RoleSet.
RoleSetVecCountContains(rc, other) == RoleSetContains(rc.set, other)

\* ------------------------------------------------------------------------
\* The input value: A11yNode {role, children}
\* ------------------------------------------------------------------------
RECURSIVE A11yNodes(_), A11yForests(_)
\* All A11yNode values with exactly n nodes.
A11yNodes(n) ==
    IF n < 1 THEN {}
    ELSE { [role |-> r, children |-> cs] : r \in Roles, cs \in A11yForests(n - 1) }

\* All sequences of A11yNode values with m nodes in total.
A11yForests(m) ==
    IF m = 0 THEN { <<>> }
    ELSE UNION { { <<t>> \o f : t \in A11yNodes(k), f \in A11yForests(m - k) } : k \in 1 .. m }

A11yInputs == UNION { A11yNodes(n) : n \in 1 .. MaxNodes }

\* ------------------------------------------------------------------------
\* indextree::Arena, NodeId and the links of indextree::Node
\* ------------------------------------------------------------------------
\* Arena::new()
ArenaNew == <<>>

\* Arena::new_node(data): appends a detached node, returns its id.
NewNode(arena, data) ==
    Append(arena, [parent |-> None, previous_sibling |-> None, next_sibling |-> None,
                   first_child |-> None, last_child |-> None, data |-> data])

\* The linking gone wrong: new_child becomes the first child of id.
NodeIdPrepend(id, child, arena) ==
    LET first == arena[id].first_child
        a1 == [arena EXCEPT ![child].parent = id, ![child].next_sibling = first]
        a2 == IF first = None THEN [a1 EXCEPT ![id].last_child = child]
              ELSE [a1 EXCEPT ![first].previous_sibling = child]
    IN [a2 EXCEPT ![id].first_child = child]

\* The linking gone wrong: the parent link of new_child is not set.
NodeIdAppendNoParent(id, child, arena) ==
    LET last == arena[id].last_child
        a1 == [arena EXCEPT ![child].previous_sibling = last]
        a2 == IF last = None THEN [a1 EXCEPT ![id].first_child = child]
              ELSE [a1 EXCEPT ![last].next_sibling = child]
    IN [a2 EXCEPT ![id].last_child = child]

\* NodeId::append(new_child, arena): new_child becomes the last child of id.
NodeIdAppend(id, child, arena) ==
    LET last == arena[id].last_child
        a1 == [arena EXCEPT ![child].parent = id, ![child].previous_sibling = last]
        a2 == IF last = None THEN [a1 EXCEPT ![id].first_child = child]
              ELSE [a1 EXCEPT ![last].next_sibling = child]
    IN [a2 EXCEPT ![id].last_child = child]

RECURSIVE ChildrenFrom(_, _)
ChildrenFrom(arena, c) ==
    IF c = None THEN <<>> ELSE <<c>> \o ChildrenFrom(arena, arena[c].next_sibling)

\* NodeId::children(arena): the children, first to last.
Children(arena, id) == ChildrenFrom(arena, arena[id].first_child)

RECURSIVE RevChildrenFrom(_, _)
RevChildrenFrom(arena, c) ==
    IF c = None THEN <<>> ELSE <<c>> \o RevChildrenFrom(arena, arena[c].previous_sibling)

\* NodeId::children(arena).rev(): the children, last to first.
RevChildren(arena, id) == RevChildrenFrom(arena, arena[id].last_child)

RECURSIVE Ancestors(_, _)
\* NodeId::ancestors(arena): the node itself, then its parent, up to the root.
Ancestors(arena, id) ==
    IF id = None THEN <<>> ELSE <<id>> \o Ancestors(arena, arena[id].parent)

RECURSIVE Descendants(_, _), DescendantsOfAll(_, _)
\* NodeId::descendants(arena): the node itself and its descendants, in
\* tree (pre)order.
Descendants(arena, id) == <<id>> \o DescendantsOfAll(arena, Children(arena, id))

DescendantsOfAll(arena, ids) ==
    IF ids = <<>> THEN <<>>
    ELSE Descendants(arena, Head(ids)) \o DescendantsOfAll(arena, Tail(ids))

\* Arena::iter() / par_iter(): the nodes in the order of the backing vector.
ArenaIds(arena) == [i \in 1 .. Len(arena) |-> i]

\* ------------------------------------------------------------------------
\* Construction: from_a11y_node / from_root_node
\* ------------------------------------------------------------------------
RECURSIVE NodeFromA11yNode(_, _), NodeAppendChildren(_, _, _, _)
\* The construction gone wrong: the roleset of the new node holds its role
\* before build_rolesets has run.
NodeFromA11yNodeSeeded(node, tree) ==
    LET new_node == [role |-> node.role, roleset |-> RoleSetFrom(node.role)]
        t1 == NewNode(tree, new_node)
        id == Len(t1)
    IN [id |-> id, tree |-> NodeAppendChildren(node.children, 1, id, t1)]

\* Node::from_a11y_node(node, tree): returns [id, tree].
NodeFromA11yNode(node, tree) ==
    LET new_node == [role |-> node.role, roleset |-> RoleSetDefault]
        t1 == NewNode(tree, new_node)
        id == Len(t1)
    IN [id |-> id, tree |-> NodeAppendChildren(node.children, 1, id, t1)]

\* the loop `for child in node.children` of Node::from_a11y_node
NodeAppendChildren(children, i, id, tree) ==
    IF i > Len(children) THEN tree
    ELSE LET r == NodeFromA11yNode(children[i], tree)
         IN NodeAppendChildren(children, i + 1, id, NodeIdAppend(id, r.id, r.tree))

RECURSIVE NodeCountFromA11yNode(_, _), NodeCountAppendChildren(_, _, _, _)
\* The construction gone wrong: the RoleSet of the new node holds its role
\* while its counts are all zero.
NodeCountFromA11yNodeSeeded(node, tree) ==
    LET new_node == [role |-> node.role,
                     roleset |-> [RoleSetVecCountDefault EXCEPT !.set = RoleSetFrom(node.role)]]
        t1 == NewNode(tree, new_node)
        id == Len(t1)
    IN [id |-> id, tree |-> NodeCountAppendChildren(node.children, 1, id, t1)]

\* NodeCount::from_a11y_node(node, tree): returns [id, tree].
NodeCountFromA11yNode(node, tree) ==
    LET new_node == [role |-> node.role, roleset |-> RoleSetVecCountDefault]
        t1 == NewNode(tree, new_node)
        id == Len(t1)
    IN [id |-> id, tree |-> NodeCountAppendChildren(node.children, 1, id, t1)]

\* the loop `for child in node.children` of NodeCount::from_a11y_node
NodeCountAppendChildren(children, i, id, tree) ==
    IF i > Len(children) THEN tree
    ELSE LET r == NodeCountFromA11yNode(children[i], tree)
         IN NodeCountAppendChildren(children, i + 1, id, NodeIdAppend(id, r.id, r.tree))

\* Tree::from_root_node(root_node)
TreeFromRootNode(root_node) ==
    LET r == NodeFromA11yNode(root_node, ArenaNew)
    IN [inner |-> r.tree, root |-> r.id]

\* TreeCount::from_root_node(root_node)
TreeCountFromRootNode(root_node) ==
    LET r == NodeCountFromA11yNode(root_node, ArenaNew)
    IN [inner |-> r.tree, root |-> r.id]

\* ------------------------------------------------------------------------
\* Node payloads of the two flavors
\* ------------------------------------------------------------------------
\* HasRole::roleset(): Node returns its roleset, NodeCount the RoleSet (.1)
\* of its RoleSetVecCount.
HasRoleRoleset(fl, data) == IF fl = "Tree" THEN data.roleset ELSE data.roleset.set

\* The test gone wrong: the own role of the node is tested, not its summary.
NodeRolesetContainsOwn(fl, data, rs) == RoleSetContains(RoleSetFrom(data.role), rs)

\* node.get().roleset.contains(rs) as written in the methods of Tree (on a
\* RoleSet) and of TreeCount (on a RoleSetVecCount).
NodeRolesetContains(fl, data, rs) ==
    IF fl = "Tree" THEN RoleSetContains(data.roleset, rs)
    ELSE RoleSetVecCountContains(data.roleset, rs)

\* ------------------------------------------------------------------------
\* The role-filtered cursor (indextree_ext.rs)
\* ------------------------------------------------------------------------
StartEdge(n) == [kind |-> "Start", node |-> n]

EndEdge(n) == [kind |-> "End", node |-> n]

\* Option<NodeEdge>::None
NoEdge == [kind |-> "None", node |-> None]

RECURSIVE NextTraverseRoleGivesUp(_, _, _, _)
\* next_traverse_role gone wrong: when the first child is pruned, the node
\* is left at once, its other children unseen.
NextTraverseRoleGivesUp(fl, edge, arena, role) ==
    IF edge.kind = "Start"
    THEN LET first_child == arena[edge.node].first_child
         IN IF first_child # None
                  /\ RoleSetContains(HasRoleRoleset(fl, arena[first_child].data), role)
            THEN StartEdge(first_child)
            ELSE EndEdge(edge.node)
    ELSE LET node == arena[edge.node]
             next_sibling == node.next_sibling
         IN IF next_sibling # None
            THEN IF RoleSetContains(HasRoleRoleset(fl, arena[next_sibling].data), role)
                 THEN StartEdge(next_sibling)
                 ELSE NextTraverseRoleGivesUp(fl, EndEdge(next_sibling), arena, role)
            ELSE IF node.parent = None THEN NoEdge ELSE EndEdge(node.parent)

RECURSIVE NextTraverseRoleEntersFirst(_, _, _, _)
\* next_traverse_role gone wrong: the first child is entered untested.
NextTraverseRoleEntersFirst(fl, edge, arena, role) ==
    IF edge.kind = "Start"
    THEN LET first_child == arena[edge.node].first_child
         IN IF first_child # None THEN StartEdge(first_child) ELSE EndEdge(edge.node)
    ELSE LET node == arena[edge.node]
             next_sibling == node.next_sibling
         IN IF next_sibling # None
            THEN IF RoleSetContains(HasRoleRoleset(fl, arena[next_sibling].data), role)
                 THEN StartEdge(next_sibling)
                 ELSE NextTraverseRoleEntersFirst(fl, EndEdge(next_sibling), arena, role)
            ELSE IF node.parent = None THEN NoEdge ELSE EndEdge(node.parent)

RECURSIVE NextTraverseRole(_, _, _, _)
\* NodeEdge::next_traverse_role(self, arena, role)
NextTraverseRole(fl, edge, arena, role) ==
    IF edge.kind = "Start"
    THEN LET first_child == arena[edge.node].first_child
         IN IF first_child # None
            THEN IF RoleSetContains(HasRoleRoleset(fl, arena[first_child].data), role)
                 THEN StartEdge(first_child)
                 ELSE EndEdge(first_child)
            ELSE EndEdge(edge.node)
    ELSE LET node == arena[edge.node]
             next_sibling == node.next_sibling
         IN IF next_sibling # None
            THEN IF RoleSetContains(HasRoleRoleset(fl, arena[next_sibling].data), role)
                 THEN StartEdge(next_sibling)
                 ELSE NextTraverseRole(fl, EndEdge(next_sibling), arena, role)
            ELSE IF node.parent = None THEN NoEdge ELSE EndEdge(node.parent)

\* TraverseRole::new(arena, current, role)
TraverseRoleNew(current, role) ==
    [root |-> current, next |-> StartEdge(current), role |-> role]

\* TraverseRole::next_of_next(&self, next)
NextOfNext(fl, arena, it, next) ==
    IF next = EndEdge(it.root) THEN NoEdge
    ELSE NextTraverseRole(fl, next, arena, it.role)

\* Iterator::next for TraverseRole: returns [item, it], item being the
\* event handed out and it the cursor afterwards.
TraverseRoleNext(fl, arena, it) ==
    IF it.next = NoEdge THEN [item |-> NoEdge, it |-> it]
    ELSE [item |-> it.next, it |-> [it EXCEPT !.next = NextOfNext(fl, arena, it, it.next)]]

\* DescendantsRole::next gone wrong: the node of an End event is handed out
\* like the node of a Start event.
DescendantsRoleNextAnyEdge(fl, arena, it) ==
    LET r == TraverseRoleNext(fl, arena, it)
    IN IF r.item = NoEdge THEN [item |-> None, it |-> r.it]
       ELSE [item |-> r.item.node, it |-> r.it]

RECURSIVE DescendantsRoleNext(_, _, _)
\* Iterator::next for DescendantsRole: the node of the next Start event;
\* returns [item, it], item = None when the cursor is exhausted.
DescendantsRoleNext(fl, arena, it) ==
    LET r == TraverseRoleNext(fl, arena, it)
    IN IF r.item = NoEdge THEN [item |-> None, it |-> r.it]
       ELSE IF r.item.kind = "Start" THEN [item |-> r.item.node, it |-> r.it]
       ELSE DescendantsRoleNext(fl, arena, r.it)

\* ------------------------------------------------------------------------
\* rayon: the orders and splits a parallel iterator may take
\* ------------------------------------------------------------------------
\* rayon::iter::walk_tree guarantees no order; the library has a prefix
\* and a postfix walk.
WalkOrders == {"prefix", "postfix"}

\* current_num_threads(): the size of the thread pool
Threads == 1 .. MaxThreads

\* The places where a range of nodes may be split between two workers.
Splits == 0 .. MaxNodes

\* The two halves of a range split at k.
LeftPart(seq, k) == SubSeq(seq, 1, IF k < Len(seq) THEN k ELSE Len(seq))

RightPart(seq, k) == SubSeq(seq, (IF k < Len(seq) THEN k ELSE Len(seq)) + 1, Len(seq))

RECURSIVE ExponentialBlocks(_, _)
\* ParallelIterator::by_exponential_blocks(): consecutive blocks, the first
\* of the size of the thread pool, each next one twice as long.
ExponentialBlocks(seq, size) ==
    IF seq = <<>> THEN <<>>
    ELSE <<LeftPart(seq, size)>> \o ExponentialBlocks(RightPart(seq, size), 2 * size)

\* ------------------------------------------------------------------------
\* find_first and its variants
\* ------------------------------------------------------------------------
RECURSIVE FindMapRole(_, _, _)
\* ids.find_map(|id| arena.get(id).filter(|node| node.get().role == role))
FindMapRole(arena, ids, role) ==
    IF ids = <<>> THEN None
    ELSE IF arena[Head(ids)].data.role = role THEN Head(ids)
    ELSE FindMapRole(arena, Tail(ids), role)

\* find_first gone wrong: the scan starts below the root.
find_first_below_root(t, role) ==
    FindMapRole(t.inner, Tail(Descendants(t.inner, t.root)), role)

\* Tree::find_first / TreeCount::find_first
find_first(t, role) == FindMapRole(t.inner, Descendants(t.inner, t.root), role)

\* ParallelIterator::find_first on one block split in two: the match of
\* the left half wins over the one of the right half.
ParFindFirstIn(arena, block, role, k) ==
    LET l == FindMapRole(arena, LeftPart(block, k), role)
        r == FindMapRole(arena, RightPart(block, k), role)
    IN IF l # None THEN l ELSE r

RECURSIVE ParFindFirstBlocks(_, _, _, _)
\* the blocks are searched one after the other, until one has a match
ParFindFirstBlocks(arena, blocks, role, k) ==
    IF blocks = <<>> THEN None
    ELSE LET m == ParFindFirstIn(arena, Head(blocks), role, k)
         IN IF m # None THEN m ELSE ParFindFirstBlocks(arena, Tail(blocks), role, k)

\* par_find_first gone wrong: within a block the match of the right half
\* wins (find_any in place of find_first).
par_find_first_any(t, role, threads, split) ==
    LET RightWins(block) ==
            LET l == FindMapRole(t.inner, LeftPart(block, split), role)
                r == FindMapRole(t.inner, RightPart(block, split), role)
            IN IF r # None THEN r ELSE l
        blocks == ExponentialBlocks(ArenaIds(t.inner), threads)
        hits == [i \in 1 .. Len(blocks) |-> RightWins(blocks[i])]
        found == { i \in 1 .. Len(blocks) : hits[i] # None }
    IN IF found = {} THEN None
       ELSE hits[CHOOSE i \in found : \A j \in found : i <= j]

\* Tree::par_find_first / TreeCount::par_find_first
par_find_first(t, role, threads, split) ==
    ParFindFirstBlocks(t.inner, ExponentialBlocks(ArenaIds(t.inner), threads), role, split)

RECURSIVE FindMapDescendantsRole(_, _, _, _)
\* descendants_role(..).find_map(..): the cursor is advanced until it hands
\* out a node of the role, or is exhausted
FindMapDescendantsRole(fl, arena, it, role) ==
    LET r == DescendantsRoleNext(fl, arena, it)
    IN IF r.item = None THEN None
       ELSE IF arena[r.item].data.role = role THEN r.item
       ELSE FindMapDescendantsRole(fl, arena, r.it, role)

\* Tree::find_first_roleset / TreeCount::find_first_roleset
find_first_roleset(fl, t, role) ==
    FindMapDescendantsRole(fl, t.inner, TraverseRoleNew(t.root, RoleSetFrom(role)), role)

RECURSIVE FilterOwnRole(_, _, _, _)
\* The filter gone wrong: a child is kept when its own role is in rs,
\* whatever its summary.
FilterOwnRole(fl, arena, ids, rs) ==
    IF ids = <<>> THEN <<>>
    ELSE (IF arena[Head(ids)].data.role \in rs THEN <<Head(ids)>> ELSE <<>>)
         \o FilterOwnRole(fl, arena, Tail(ids), rs)

\* The filter gone wrong: every child is kept.
FilterAll(fl, arena, ids, rs) == ids

RECURSIVE FilterContains(_, _, _, _)
\* ids.filter(|id| arena.get(id).get().roleset.contains(rs))
FilterContains(fl, arena, ids, rs) ==
    IF ids = <<>> THEN <<>>
    ELSE (IF NodeRolesetContains(fl, arena[Head(ids)].data, rs) THEN <<Head(ids)>> ELSE <<>>)
         \o FilterContains(fl, arena, Tail(ids), rs)

RECURSIVE WalkTree(_, _, _, _, _), WalkTreeAll(_, _, _, _, _)
\* walk_tree(root, |node_id| node_id.children(..).filter(contains rs)): the
\* nodes in the order the walk yields them.
WalkTree(fl, arena, id, rs, order) ==
    LET below == WalkTreeAll(fl, arena, FilterContains(fl, arena, Children(arena, id), rs),
                             rs, order)
    IN IF order = "prefix" THEN <<id>> \o below ELSE below \o <<id>>

WalkTreeAll(fl, arena, ids, rs, order) ==
    IF ids = <<>> THEN <<>>
    ELSE WalkTree(fl, arena, Head(ids), rs, order) \o WalkTreeAll(fl, arena, Tail(ids), rs, order)

\* Tree::par_find_first_roleset / TreeCount::par_find_first_roleset
par_find_first_roleset(fl, t, role, order, split) ==
    LET walk == WalkTree(fl, t.inner, t.root, RoleSetFrom(role), order)
    IN ParFindFirstIn(t.inner, walk, role, split)

RECURSIVE PushFront(_, _)
\* ids.for_each(|good_child| stack.push_front(good_child))
PushFront(stack, ids) ==
    IF ids = <<>> THEN stack ELSE PushFront(<<Head(ids)>> \o stack, Tail(ids))

RECURSIVE FindFirstStackLoopNoRev(_, _, _, _)
\* find_first_stack gone wrong: the children are pushed first to last, so
\* that the last child is popped first.
FindFirstStackLoopNoRev(fl, arena, stack, role) ==
    IF stack = <<>> THEN None
    ELSE LET id == Head(stack)
         IN IF arena[id].data.role = role THEN id
            ELSE FindFirstStackLoopNoRev(fl, arena,
                     PushFront(Tail(stack),
                               FilterContains(fl, arena, Children(arena, id), RoleSetFrom(role))),
                     role)

RECURSIVE FindFirstStackLoop(_, _, _, _)
\* the loop `while let Some(id) = stack.pop_front()` of find_first_stack
FindFirstStackLoop(fl, arena, stack, role) ==
    IF stack = <<>> THEN None
    ELSE LET id == Head(stack)
         IN IF arena[id].data.role = role THEN id
            ELSE FindFirstStackLoop(fl, arena,
                     PushFront(Tail(stack),
                               FilterContains(fl, arena, RevChildren(arena, id), RoleSetFrom(role))),
                     role)

\* find_first_stack gone wrong: when the stack runs empty the root, the
\* first node popped, is returned.
find_first_stack_or_root(fl, t, role) ==
    LET found == FindFirstStackLoop(fl, t.inner, <<t.root>>, role)
    IN IF found = None THEN t.root ELSE found

\* Tree::find_first_stack / TreeCount::find_first_stack
find_first_stack(fl, t, role) == FindFirstStackLoop(fl, t.inner, <<t.root>>, role)

\* ------------------------------------------------------------------------
\* how_many and its variants
\* ------------------------------------------------------------------------
RECURSIVE CountRole(_, _, _)
\* ids.filter(|id| arena.get(id).get().role == role).count()
CountRole(arena, ids, role) ==
    IF ids = <<>> THEN 0
    ELSE (IF arena[Head(ids)].data.role = role THEN 1 ELSE 0) + CountRole(arena, Tail(ids), role)

\* Tree::how_many / TreeCount::how_many
how_many(t, role) == CountRole(t.inner, Descendants(t.inner, t.root), role)

\* ParallelIterator::count on a range split in two: the sum of the counts
\* of the halves.
ParCountRole(arena, ids, role, k) ==
    CountRole(arena, RightPart(ids, k), role) + CountRole(arena, LeftPart(ids, k), role)

\* Tree::par_how_many / TreeCount::par_how_many
par_how_many(t, role, split) == ParCountRole(t.inner, ArenaIds(t.inner), role, split)

RECURSIVE CountDescendantsRole(_, _, _, _)
\* descendants_role(..).filter(..).count(): the cursor is run to its end
CountDescendantsRole(fl, arena, it, role) ==
    LET r == DescendantsRoleNext(fl, arena, it)
    IN IF r.item = None THEN 0
       ELSE (IF arena[r.item].data.role = role THEN 1 ELSE 0)
            + CountDescendantsRole(fl, arena, r.it, role)

\* Tree::how_many_roleset / TreeCount::how_many_roleset
how_many_roleset(fl, t, role) ==
    CountDescendantsRole(fl, t.inner, TraverseRoleNew(t.root, RoleSetFrom(role)), role)

\* Tree::par_how_many_roleset / TreeCount::par_how_many_roleset
par_how_many_roleset(fl, t, role, order, split) ==
    LET walk == WalkTree(fl, t.inner, t.root, RoleSetFrom(role), order)
    IN ParCountRole(t.inner, walk, role, split)

\* ------------------------------------------------------------------------
\* max_depth and par_max_depth
\* ------------------------------------------------------------------------
\* Option<usize>::None, the max() of no element
NoMax == -1

RECURSIVE MaxOf(_)
\* Iterator::max()
MaxOf(seq) ==
    IF seq = <<>> THEN NoMax
    ELSE LET m == MaxOf(Tail(seq)) IN IF Head(seq) > m THEN Head(seq) ELSE m

\* ParallelIterator::max() on a range split in two
ParMaxOf(seq, k) ==
    LET l == MaxOf(LeftPart(seq, k))
        r == MaxOf(RightPart(seq, k))
    IN IF l > r THEN l ELSE r

\* max_depth gone wrong: the node itself is not counted among its ancestors.
max_depth_proper(t) ==
    LET ids == Descendants(t.inner, t.root)
    IN MaxOf([i \in 1 .. Len(ids) |-> Len(Ancestors(t.inner, ids[i])) - 1])

\* max_depth gone wrong: the root is skipped, so that the maximum of a tree
\* made of the root alone is taken over no node.
max_depth_below_root(t) ==
    LET ids == Tail(Descendants(t.inner, t.root))
    IN MaxOf([i \in 1 .. Len(ids) |-> Len(Ancestors(t.inner, ids[i]))])

\* Tree::max_depth / TreeCount::max_depth
max_depth(t) ==
    LET ids == Descendants(t.inner, t.root)
    IN MaxOf([i \in 1 .. Len(ids) |-> Len(Ancestors(t.inner, ids[i]))])

\* par_max_depth gone wrong: the final + 1 is missing.
par_max_depth_no_offset(t, split) ==
    LET ids == ArenaIds(t.inner)
        of_parent == [i \in 1 .. Len(ids) |->
                        IF t.inner[ids[i]].parent # None
                        THEN Len(Ancestors(t.inner, t.inner[ids[i]].parent))
                        ELSE 0]
    IN ParMaxOf(of_parent, split)

\* Tree::par_max_depth / TreeCount::par_max_depth
par_max_depth(t, split) ==
    LET ids == ArenaIds(t.inner)
        of_parent == [i \in 1 .. Len(ids) |->
                        IF t.inner[ids[i]].parent # None
                        THEN Len(Ancestors(t.inner, t.inner[ids[i]].parent))
                        ELSE 0]
    IN ParMaxOf(of_parent, split) + 1

\* ------------------------------------------------------------------------
\* unique_roles and its variants
\* ------------------------------------------------------------------------
\* roles.contains(&role)
VecContains(roles, role) == \E i \in 1 .. Len(roles) : roles[i] = role

RECURSIVE FoldUniqueRoles(_, _, _)
\* .map(|node| node.get().role).fold(roles, |mut roles, role| { if
\* !roles.contains(&role) { roles.push(role); } roles })
FoldUniqueRoles(arena, ids, roles) ==
    IF ids = <<>> THEN roles
    ELSE LET role == arena[Head(ids)].data.role
         IN FoldUniqueRoles(arena, Tail(ids),
                            IF VecContains(roles, role) THEN roles ELSE Append(roles, role))

\* unique_roles gone wrong: every role is pushed, seen before or not.
unique_roles_all(t) ==
    LET ids == Descendants(t.inner, t.root)
    IN [i \in 1 .. Len(ids) |-> t.inner[ids[i]].data.role]

\* Tree::unique_roles / TreeCount::unique_roles
unique_roles(t) == FoldUniqueRoles(t.inner, Descendants(t.inner, t.root), <<>>)

RECURSIVE InsertByCode(_, _)
InsertByCode(sorted, role) ==
    IF sorted = <<>> THEN <<role>>
    ELSE IF role <= Head(sorted) THEN <<role>> \o sorted
    ELSE <<Head(sorted)>> \o InsertByCode(Tail(sorted), role)

RECURSIVE SortByCode(_)
\* vec.par_sort_unstable_by(|r1, r2| (*r1 as u32).cmp(&(*r2 as u32)))
SortByCode(vec) ==
    IF vec = <<>> THEN <<>> ELSE InsertByCode(SortByCode(Tail(vec)), Head(vec))

RECURSIVE Dedup(_)
\* Vec::dedup(): of a run of equal consecutive elements the first is kept
Dedup(vec) ==
    IF Len(vec) < 2 THEN vec
    ELSE IF vec[1] = vec[2] THEN Dedup(Tail(vec))
    ELSE <<Head(vec)>> \o Dedup(Tail(vec))

\* Tree::par_unique_roles / TreeCount::par_unique_roles: one Vec is folded
\* per part of the range, the Vecs are flattened, sorted and deduplicated.
par_unique_roles(t, split) ==
    LET ids == ArenaIds(t.inner)
        l == FoldUniqueRoles(t.inner, LeftPart(ids, split), <<>>)
        r == FoldUniqueRoles(t.inner, RightPart(ids, split), <<>>)
    IN Dedup(SortByCode(l \o r))

\* Tree::unique_roles_roleset / TreeCount::unique_roles_roleset: the roles
\* of the summary of the root.
unique_roles_roleset(fl, t) == RoleIter(HasRoleRoleset(fl, t.inner[t.root].data))

\* ------------------------------------------------------------------------
\* iter_leafs, par_iter_leafs, nodes
\* ------------------------------------------------------------------------
RECURSIVE FilterNoChild(_, _)
\* ids.filter(|id| no first child)
FilterNoChild(arena, ids) ==
    IF ids = <<>> THEN <<>>
    ELSE (IF arena[Head(ids)].first_child = None THEN <<Head(ids)>> ELSE <<>>)
         \o FilterNoChild(arena, Tail(ids))

\* Tree::iter_leafs / TreeCount::iter_leafs, collected
iter_leafs(t) == FilterNoChild(t.inner, Descendants(t.inner, t.root))

\* par_iter_leafs gone wrong: the parts are collected in the order in which
\* they finish, the right part first.
par_iter_leafs_unordered(t, split) ==
    FilterNoChild(t.inner, RightPart(ArenaIds(t.inner), split))
    \o FilterNoChild(t.inner, LeftPart(ArenaIds(t.inner), split))

\* Tree::par_iter_leafs / TreeCount::par_iter_leafs, collected: the parts
\* of the range are filtered apart and collected in the order of the range.
par_iter_leafs(t, split) ==
    FilterNoChild(t.inner, LeftPart(ArenaIds(t.inner), split))
    \o FilterNoChild(t.inner, RightPart(ArenaIds(t.inner), split))

\* Tree::nodes / TreeCount::nodes: Arena::count()
nodes(t) == Len(t.inner)

\* ------------------------------------------------------------------------
\* State
\* ------------------------------------------------------------------------
VARIABLES
    a11y_node,   \* the input value read by main
    tree,        \* Tree {inner, root}  (boolean flavor)
    tree_count,  \* TreeCount {inner, root}  (count flavor)
    builds,      \* completed calls of build_rolesets, per flavor
    work,        \* the locals of the running build_rolesets
    answer       \* the last query and what it returned

vars == <<a11y_node, tree, tree_count, builds, work, answer>>

Flavors == {"Tree", "TreeCount"}

\* A tree on which from_root_node has not run yet.
NoTree == [inner |-> ArenaNew, root |-> None]

\* No build_rolesets is running.
IdleWork == [pc |-> "idle", flavor |-> "Tree", leafs |-> <<>>, ancs |-> <<>>,
             leaf_roleset |-> RoleSetDefault, leaf_role |-> 0,
             \* a traversal that is driven step by step: its target role,
             \* the cursor and the events it has handed out, the stack and
             \* the ids popped from it, the nodes a walk has yielded, the
             \* node found
             role |-> 0,
             it |-> [root |-> None, next |-> NoEdge, role |-> RoleSetDefault],
             events |-> <<>>, stack |-> <<>>, popped |-> <<>>, walk |-> <<>>,
             found |-> None]

NoAnswer == [op |-> "none", flavor |-> "Tree", role |-> 0, node |-> None, num |-> 0, list |-> <<>>]

TheTree(fl) == IF fl = "Tree" THEN tree ELSE tree_count

Exists(fl) == TheTree(fl).root # None

Idle == work.pc = "idle"

Init ==
    /\ a11y_node \in A11yInputs
    /\ tree = NoTree
    /\ tree_count = NoTree
    /\ builds = [fl \in Flavors |-> 0]
    /\ work = IdleWork
    /\ answer = NoAnswer

\* let mut tree = Tree::from_root_node(a11y_node.clone());
FromRootNode ==
    /\ Idle
    /\ ~Exists("Tree")
    /\ answer.op = "none"
    /\ tree' = TreeFromRootNode(a11y_node)
    /\ UNCHANGED <<a11y_node, tree_count, builds, work, answer>>

\* let mut tree_count = TreeCount::from_root_node(a11y_node.clone());
\* (main builds it after tree)
FromRootNodeCount ==
    /\ Idle
    /\ Exists("Tree")
    /\ ~Exists("TreeCount")
    /\ answer.op = "none"
    /\ tree_count' = TreeCountFromRootNode(a11y_node)
    /\ UNCHANGED <<a11y_node, tree, builds, work, answer>>

\* ------------------------------------------------------------------------
\* build_rolesets, one step per loop iteration
\* ------------------------------------------------------------------------
\* Entry of build_rolesets (&mut self: no answer borrows the tree): the ids
\* of root.descendants() are collected.
BuildRolesetsBegin(fl) ==
    /\ Idle
    /\ Exists(fl)
    /\ answer.op = "none"
    /\ builds[fl] < MaxBuilds
    /\ work' = [IdleWork EXCEPT !.pc = "leaf", !.flavor = fl,
                                !.leafs = Descendants(TheTree(fl).inner, TheTree(fl).root)]
    /\ UNCHANGED <<a11y_node, tree, tree_count, builds, answer>>

\* The seeding gone wrong: leaf.roleset = leaf.role, an assignment where the
\* code has a union.
SeedLeafOverwrite ==
    /\ work.pc = "leaf"
    /\ work.flavor = "Tree"
    /\ work.leafs # <<>>
    /\ LET leaf_id == Head(work.leafs)
           leaf == tree.inner[leaf_id].data
           seeded == RoleSetFrom(leaf.role)
       IN /\ tree' = [tree EXCEPT !.inner[leaf_id].data.roleset = seeded]
          /\ work' = [work EXCEPT !.pc = "anc", !.leaf_roleset = seeded,
                                  !.ancs = Ancestors(tree.inner, leaf_id)]
    /\ UNCHANGED <<a11y_node, tree_count, builds, answer>>

\* Tree: leaf.roleset |= leaf.role; leaf_roleset = leaf.roleset; the ids of
\* leaf_id.ancestors() are collected.
SeedLeaf ==
    /\ work.pc = "leaf"
    /\ work.flavor = "Tree"
    /\ work.leafs # <<>>
    /\ LET leaf_id == Head(work.leafs)
           leaf == tree.inner[leaf_id].data
           seeded == RoleSetUnion(leaf.roleset, RoleSetFrom(leaf.role))
       IN /\ tree' = [tree EXCEPT !.inner[leaf_id].data.roleset = seeded]
          /\ work' = [work EXCEPT !.pc = "anc", !.leaf_roleset = seeded,
                                  !.ancs = Ancestors(tree.inner, leaf_id)]
    /\ UNCHANGED <<a11y_node, tree_count, builds, answer>>

\* seq without its i-th element
RemoveAt(seq, i) == SubSeq(seq, 1, i - 1) \o SubSeq(seq, i + 1, Len(seq))

\* The seeding in any order gone wrong: leaf.roleset = leaf.role, an
\* assignment where the code has a union.
SeedLeafAnyOverwrite ==
    /\ work.pc = "leaf"
    /\ work.flavor = "Tree"
    /\ \E i \in 1 .. Len(work.leafs) :
          LET leaf_id == work.leafs[i]
              leaf == tree.inner[leaf_id].data
              seeded == RoleSetFrom(leaf.role)
          IN /\ tree' = [tree EXCEPT !.inner[leaf_id].data.roleset = seeded]
             /\ work' = [work EXCEPT !.pc = "anc", !.leaf_roleset = seeded,
                                     !.leafs = <<leaf_id>> \o RemoveAt(@, i),
                                     !.ancs = Ancestors(tree.inner, leaf_id)]
    /\ UNCHANGED <<a11y_node, tree_count, builds, answer>>

\* Tree: the body of the outer loop of build_rolesets, with the ids taken
\* in any order: the next id is any of those not processed yet.
SeedLeafAny ==
    /\ work.pc = "leaf"
    /\ work.flavor = "Tree"
    /\ \E i \in 1 .. Len(work.leafs) :
          LET leaf_id == work.leafs[i]
              leaf == tree.inner[leaf_id].data
              seeded == RoleSetUnion(leaf.roleset, RoleSetFrom(leaf.role))
          IN /\ tree' = [tree EXCEPT !.inner[leaf_id].data.roleset = seeded]
             /\ work' = [work EXCEPT !.pc = "anc", !.leaf_roleset = seeded,
                                     !.leafs = <<leaf_id>> \o RemoveAt(@, i),
                                     !.ancs = Ancestors(tree.inner, leaf_id)]
    /\ UNCHANGED <<a11y_node, tree_count, builds, answer>>

\* The seeding gone wrong: a tree that is indexed already is not seeded again.
SeedLeafCountFirstOnly ==
    /\ work.pc = "leaf"
    /\ work.flavor = "TreeCount"
    /\ work.leafs # <<>>
    /\ LET leaf_id == Head(work.leafs)
           leaf == tree_count.inner[leaf_id].data
       IN /\ tree_count' = [tree_count EXCEPT !.inner[leaf_id].data.roleset =
                                IF builds["TreeCount"] = 0
                                THEN RoleSetVecCountAdd(leaf.roleset, leaf.role)
                                ELSE leaf.roleset]
          /\ work' = [work EXCEPT !.pc = "anc", !.leaf_role = leaf.role,
                                  !.ancs = Ancestors(tree_count.inner, leaf_id)]
    /\ UNCHANGED <<a11y_node, tree, builds, answer>>

\* TreeCount: leaf.roleset.add(leaf.role); the block's value is leaf.role.
SeedLeafCount ==
    /\ work.pc = "leaf"
    /\ work.flavor = "TreeCount"
    /\ work.leafs # <<>>
    /\ LET leaf_id == Head(work.leafs)
           leaf == tree_count.inner[leaf_id].data
       IN /\ tree_count' = [tree_count EXCEPT !.inner[leaf_id].data.roleset =
                                RoleSetVecCountAdd(leaf.roleset, leaf.role)]
          /\ work' = [work EXCEPT !.pc = "anc", !.leaf_role = leaf.role,
                                  !.ancs = Ancestors(tree_count.inner, leaf_id)]
    /\ UNCHANGED <<a11y_node, tree, builds, answer>>

\* The inner loop gone wrong: it stops after the first id of the chain, the
\* leaf itself.
AfterFirstAncestor == [work EXCEPT !.pc = "leaf", !.ancs = <<>>, !.leafs = Tail(@)]

\* What the locals are after one iteration of the inner loop.
AfterAncestor ==
    IF Len(work.ancs) > 1 THEN [work EXCEPT !.ancs = Tail(@)]
    ELSE [work EXCEPT !.pc = "leaf", !.ancs = <<>>, !.leafs = Tail(@)]

\* Tree: anc.roleset |= leaf_roleset
MergeAncestor ==
    /\ work.pc = "anc"
    /\ work.flavor = "Tree"
    /\ LET anc_id == Head(work.ancs)
       IN tree' = [tree EXCEPT !.inner[anc_id].data.roleset =
                        RoleSetUnion(@, work.leaf_roleset)]
    /\ work' = AfterAncestor
    /\ UNCHANGED <<a11y_node, tree_count, builds, answer>>

\* The merge gone wrong: the ancestor adds its own role, not the leaf's.
MergeAncestorCountOwnRole ==
    /\ work.pc = "anc"
    /\ work.flavor = "TreeCount"
    /\ LET anc_id == Head(work.ancs)
       IN tree_count' = [tree_count EXCEPT !.inner[anc_id].data.roleset =
                              RoleSetVecCountAdd(@, tree_count.inner[anc_id].data.role)]
    /\ work' = AfterAncestor
    /\ UNCHANGED <<a11y_node, tree, builds, answer>>

\* TreeCount: anc.roleset.add(leaf_roleset), leaf_roleset being the leaf's role
MergeAncestorCount ==
    /\ work.pc = "anc"
    /\ work.flavor = "TreeCount"
    /\ LET anc_id == Head(work.ancs)
       IN tree_count' = [tree_count EXCEPT !.inner[anc_id].data.roleset =
                              RoleSetVecCountAdd(@, work.leaf_role)]
    /\ work' = AfterAncestor
    /\ UNCHANGED <<a11y_node, tree, builds, answer>>

\* The outer loop gone wrong: on the boolean tree it starts over when it is
\* exhausted.
BuildRolesetsEndTreeRestarts ==
    /\ work.pc = "leaf"
    /\ work.leafs = <<>>
    /\ IF work.flavor = "Tree"
       THEN /\ work' = [work EXCEPT !.leafs = Descendants(tree.inner, tree.root)]
            /\ UNCHANGED builds
       ELSE /\ builds' = [builds EXCEPT ![work.flavor] = @ + 1]
            /\ work' = IdleWork
    /\ UNCHANGED <<a11y_node, tree, tree_count, answer>>

\* The outer loop is exhausted: build_rolesets returns.
BuildRolesetsEnd ==
    /\ work.pc = "leaf"
    /\ work.leafs = <<>>
    /\ builds' = [builds EXCEPT ![work.flavor] = @ + 1]
    /\ work' = IdleWork
    /\ UNCHANGED <<a11y_node, tree, tree_count, answer>>

\* ------------------------------------------------------------------------
\* Queries: each call leaves its name, its argument and its result in answer
\* ------------------------------------------------------------------------
\* A query borrows the tree: it runs on an existing tree, outside
\* build_rolesets, once the caller is done with the previous answer.
CanQuery(fl) == Idle /\ Exists(fl) /\ answer.op = "none"

NodeAnswer(op, fl, role, node) ==
    [NoAnswer EXCEPT !.op = op, !.flavor = fl, !.role = role, !.node = node]

NumAnswer(op, fl, role, num) ==
    [NoAnswer EXCEPT !.op = op, !.flavor = fl, !.role = role, !.num = num]

ListAnswer(op, fl, list) ==
    [NoAnswer EXCEPT !.op = op, !.flavor = fl, !.list = list]

FindFirst(fl, role) ==
    /\ CanQuery(fl)
    /\ answer' = NodeAnswer("find_first", fl, role, find_first(TheTree(fl), role))
    /\ UNCHANGED <<a11y_node, tree, tree_count, builds, work>>

ParFindFirst(fl, role, threads, split) ==
    /\ CanQuery(fl)
    /\ answer' = NodeAnswer("par_find_first", fl, role,
                            par_find_first(TheTree(fl), role, threads, split))
    /\ UNCHANGED <<a11y_node, tree, tree_count, builds, work>>

FindFirstRoleset(fl, role) ==
    /\ CanQuery(fl)
    /\ answer' = NodeAnswer("find_first_roleset", fl, role,
                            find_first_roleset(fl, TheTree(fl), role))
    /\ UNCHANGED <<a11y_node, tree, tree_count, builds, work>>

ParFindFirstRoleset(fl, role, order, split) ==
    /\ CanQuery(fl)
    /\ answer' = NodeAnswer("par_find_first_roleset", fl, role,
                            par_find_first_roleset(fl, TheTree(fl), role, order, split))
    /\ UNCHANGED <<a11y_node, tree, tree_count, builds, work>>

\* The query gone wrong: it takes the summary of the root out of the tree.
FindFirstStackTaking(fl, role) ==
    /\ CanQuery(fl)
    /\ answer' = NodeAnswer("find_first_stack", fl, role, find_first_stack(fl, TheTree(fl), role))
    /\ IF fl = "Tree"
       THEN /\ tree' = [tree EXCEPT !.inner[tree.root].data.roleset = RoleSetDefault]
            /\ UNCHANGED tree_count
       ELSE /\ tree_count' = [tree_count EXCEPT
                                 !.inner[tree_count.root].data.roleset = RoleSetVecCountDefault]
            /\ UNCHANGED tree
    /\ UNCHANGED <<a11y_node, builds, work>>

FindFirstStack(fl, role) ==
    /\ CanQuery(fl)
    /\ answer' = NodeAnswer("find_first_stack", fl, role, find_first_stack(fl, TheTree(fl), role))
    /\ UNCHANGED <<a11y_node, tree, tree_count, builds, work>>

HowMany(fl, role) ==
    /\ CanQuery(fl)
    /\ answer' = NumAnswer("how_many", fl, role, how_many(TheTree(fl), role))
    /\ UNCHANGED <<a11y_node, tree, tree_count, builds, work>>

ParHowMany(fl, role, split) ==
    /\ CanQuery(fl)
    /\ answer' = NumAnswer("par_how_many", fl, role, par_how_many(TheTree(fl), role, split))
    /\ UNCHANGED <<a11y_node, tree, tree_count, builds, work>>

HowManyRoleset(fl, role) ==
    /\ CanQuery(fl)
    /\ answer' = NumAnswer("how_many_roleset", fl, role, how_many_roleset(fl, TheTree(fl), role))
    /\ UNCHANGED <<a11y_node, tree, tree_count, builds, work>>

ParHowManyRoleset(fl, role, order, split) ==
    /\ CanQuery(fl)
    /\ answer' = NumAnswer("par_how_many_roleset", fl, role,
                           par_how_many_roleset(fl, TheTree(fl), role, order, split))
    /\ UNCHANGED <<a11y_node, tree, tree_count, builds, work>>

MaxDepth(fl) ==
    /\ CanQuery(fl)
    /\ answer' = NumAnswer("max_depth", fl, 0, max_depth(TheTree(fl)))
    /\ UNCHANGED <<a11y_node, tree, tree_count, builds, work>>

ParMaxDepth(fl, split) ==
    /\ CanQuery(fl)
    /\ answer' = NumAnswer("par_max_depth", fl, 0, par_max_depth(TheTree(fl), split))
    /\ UNCHANGED <<a11y_node, tree, tree_count, builds, work>>

UniqueRoles(fl) ==
    /\ CanQuery(fl)
    /\ answer' = ListAnswer("unique_roles", fl, unique_roles(TheTree(fl)))
    /\ UNCHANGED <<a11y_node, tree, tree_count, builds, work>>

ParUniqueRoles(fl, split) ==
    /\ CanQuery(fl)
    /\ answer' = ListAnswer("par_unique_roles", fl, par_unique_roles(TheTree(fl), split))
    /\ UNCHANGED <<a11y_node, tree, tree_count, builds, work>>

UniqueRolesRoleset(fl) ==
    /\ CanQuery(fl)
    /\ answer' = ListAnswer("unique_roles_roleset", fl, unique_roles_roleset(fl, TheTree(fl)))
    /\ UNCHANGED <<a11y_node, tree, tree_count, builds, work>>

IterLeafs(fl) ==
    /\ CanQuery(fl)
    /\ answer' = ListAnswer("iter_leafs", fl, iter_leafs(TheTree(fl)))
    /\ UNCHANGED <<a11y_node, tree, tree_count, builds, work>>

ParIterLeafs(fl, split) ==
    /\ CanQuery(fl)
    /\ answer' = ListAnswer("par_iter_leafs", fl, par_iter_leafs(TheTree(fl), split))
    /\ UNCHANGED <<a11y_node, tree, tree_count, builds, work>>

NodesCount(fl) ==
    /\ CanQuery(fl)
    /\ answer' = NumAnswer("nodes", fl, 0, nodes(TheTree(fl)))
    /\ UNCHANGED <<a11y_node, tree, tree_count, builds, work>>

\* ------------------------------------------------------------------------
\* The traversals, one step per call of next() or per turn of the loop
\* ------------------------------------------------------------------------
\* root.traverse_role(&arena, role.into()): TraverseRole::new
TraverseRoleBegin(fl, role) ==
    /\ CanQuery(fl)
    /\ work' = [IdleWork EXCEPT !.pc = "cursor", !.flavor = fl, !.role = role,
                                !.it = TraverseRoleNew(TheTree(fl).root, RoleSetFrom(role))]
    /\ UNCHANGED <<a11y_node, tree, tree_count, builds, answer>>

\* One call of TraverseRole::next() that may hand out an event: the event
\* is logged; on None the cursor has ended.
TraverseRoleStep ==
    /\ work.pc = "cursor"
    /\ LET r == TraverseRoleNext(work.flavor, TheTree(work.flavor).inner, work.it)
       IN work' = IF r.item = NoEdge
                  THEN [work EXCEPT !.pc = "ended", !.it = r.it]
                  ELSE [work EXCEPT !.it = r.it, !.events = Append(@, r.item)]
    /\ UNCHANGED <<a11y_node, tree, tree_count, builds, answer>>

\* One more call of next() on a cursor that has returned None.
TraverseRoleNextAgain ==
    /\ work.pc = "ended"
    /\ LET r == TraverseRoleNext(work.flavor, TheTree(work.flavor).inner, work.it)
       IN work' = [work EXCEPT !.pc = "polled", !.it = r.it,
                               !.events = IF r.item = NoEdge THEN @ ELSE Append(@, r.item)]
    /\ UNCHANGED <<a11y_node, tree, tree_count, builds, answer>>

\* find_first_stack: the stack is made and the root pushed.
FindFirstStackBegin(fl, role) ==
    /\ CanQuery(fl)
    /\ work' = [IdleWork EXCEPT !.pc = "stack", !.flavor = fl, !.role = role,
                                !.stack = <<TheTree(fl).root>>]
    /\ UNCHANGED <<a11y_node, tree, tree_count, builds, answer>>

\* One turn of `while let Some(id) = stack.pop_front()`: the node is
\* returned when it has the role, else its children that pass the filter are
\* pushed, last to first; on an empty stack the loop is left with None.
FindFirstStackStep ==
    /\ work.pc = "stack"
    /\ LET arena == TheTree(work.flavor).inner
       IN work' =
            IF work.stack = <<>> THEN [work EXCEPT !.pc = "returned", !.found = None]
            ELSE LET id == Head(work.stack)
                 IN IF arena[id].data.role = work.role
                    THEN [work EXCEPT !.pc = "returned", !.found = id,
                                      !.stack = Tail(@), !.popped = Append(@, id)]
                    ELSE [work EXCEPT !.popped = Append(@, id),
                                      !.stack = PushFront(Tail(@),
                                          FilterContains(work.flavor, arena,
                                                         RevChildren(arena, id),
                                                         RoleSetFrom(work.role)))]
    /\ UNCHANGED <<a11y_node, tree, tree_count, builds, answer>>

\* walk_tree(root, children that pass the filter), run to its end: the
\* nodes it yields, in one of the orders the walk may take.
WalkTreeRun(fl, role, order) ==
    /\ CanQuery(fl)
    /\ work' = [IdleWork EXCEPT !.pc = "walked", !.flavor = fl, !.role = role,
                                !.walk = WalkTree(fl, TheTree(fl).inner, TheTree(fl).root,
                                                  RoleSetFrom(role), order)]
    /\ UNCHANGED <<a11y_node, tree, tree_count, builds, answer>>

\* The traversal is dropped: the borrow of the tree ends.
TraversalDrop ==
    /\ work.pc \in {"ended", "polled", "returned", "walked"}
    /\ work' = IdleWork
    /\ UNCHANGED <<a11y_node, tree, tree_count, builds, answer>>

\* The caller is done with the answer: the borrow of the tree ends.
Return ==
    /\ answer.op # "none"
    /\ answer' = NoAnswer
    /\ UNCHANGED <<a11y_node, tree, tree_count, builds, work>>

Next ==
    \/ FromRootNode
    \/ FromRootNodeCount
    \/ \E fl \in Flavors : BuildRolesetsBegin(fl)
    \/ SeedLeaf
    \/ SeedLeafCount
    \/ MergeAncestor
    \/ MergeAncestorCount
    \/ BuildRolesetsEnd
    \/ \E fl \in Flavors, role \in Roles : FindFirst(fl, role)
    \/ \E fl \in Flavors, role \in Roles, threads \in Threads, split \in Splits :
          ParFindFirst(fl, role, threads, split)
    \/ \E fl \in Flavors, role \in Roles : FindFirstRoleset(fl, role)
    \/ \E fl \in Flavors, role \in Roles, order \in WalkOrders, split \in Splits :
          ParFindFirstRoleset(fl, role, order, split)
    \/ \E fl \in Flavors, role \in Roles : FindFirstStack(fl, role)
    \/ \E fl \in Flavors, role \in Roles : HowMany(fl, role)
    \/ \E fl \in Flavors, role \in Roles, split \in Splits : ParHowMany(fl, role, split)
    \/ \E fl \in Flavors, role \in Roles : HowManyRoleset(fl, role)
    \/ \E fl \in Flavors, role \in Roles, order \in WalkOrders, split \in Splits :
          ParHowManyRoleset(fl, role, order, split)
    \/ \E fl \in Flavors : MaxDepth(fl)
    \/ \E fl \in Flavors, split \in Splits : ParMaxDepth(fl, split)
    \/ \E fl \in Flavors : UniqueRoles(fl)
    \/ \E fl \in Flavors, split \in Splits : ParUniqueRoles(fl, split)
    \/ \E fl \in Flavors : UniqueRolesRoleset(fl)
    \/ \E fl \in Flavors : IterLeafs(fl)
    \/ \E fl \in Flavors, split \in Splits : ParIterLeafs(fl, split)
    \/ \E fl \in Flavors : NodesCount(fl)
    \/ Return

Spec == Init /\ [][Next]_vars

\* The program with its traversals driven step by step.
NextSteps ==
    \/ FromRootNode
    \/ FromRootNodeCount
    \/ \E fl \in Flavors : BuildRolesetsBegin(fl)
    \/ SeedLeaf
    \/ SeedLeafCount
    \/ MergeAncestor
    \/ MergeAncestorCount
    \/ BuildRolesetsEnd
    \/ \E fl \in Flavors, role \in Roles : TraverseRoleBegin(fl, role)
    \/ TraverseRoleStep
    \/ TraverseRoleNextAgain
    \/ \E fl \in Flavors, role \in Roles : FindFirstStackBegin(fl, role)
    \/ FindFirstStackStep
    \/ \E fl \in Flavors, role \in Roles, order \in WalkOrders : WalkTreeRun(fl, role, order)
    \/ TraversalDrop

SpecSteps == Init /\ [][NextSteps]_vars

\* Tree::build_rolesets with its outer loop taking the ids in any order.
NextAnyOrder ==
    \/ FromRootNode
    \/ BuildRolesetsBegin("Tree")
    \/ SeedLeafAny
    \/ MergeAncestor
    \/ BuildRolesetsEnd

SpecAnyOrder == Init /\ [][NextAnyOrder]_vars

\* A loop that has a turn to take, and a cursor that is being drained,
\* takes it: the code is sequential and nothing blocks.
FairSteps ==
    /\ SpecSteps
    /\ WF_vars(SeedLeaf)
    /\ WF_vars(SeedLeafCount)
    /\ WF_vars(MergeAncestor)
    /\ WF_vars(MergeAncestorCount)
    /\ WF_vars(BuildRolesetsEnd)
    /\ WF_vars(TraverseRoleStep)
    /\ WF_vars(FindFirstStackStep)

\* ------------------------------------------------------------------------
\* Vocabulary of the properties
\* ------------------------------------------------------------------------
\* The handles of all nodes of a tree.
NodeIds(t) == 1 .. Len(t.inner)

\* n and the nodes above it, by the parent links.
AncSet(t, n) == LET a == Ancestors(t.inner, n) IN { a[i] : i \in 1 .. Len(a) }

\* The nodes of the subtree of n, n included.
Subtree(t, n) == { m \in NodeIds(t) : n \in AncSet(t, m) }

\* x is a sibling of y that stands left of it.
LeftOf(t, x, y) ==
    /\ x # y
    /\ t.inner[x].parent = t.inner[y].parent
    /\ LET right == ChildrenFrom(t.inner, t.inner[x].next_sibling)
       IN \E i \in 1 .. Len(right) : right[i] = y

\* a comes before b in preorder: a is above b, or a lies in a subtree that
\* stands left of the subtree b lies in.
Before(t, a, b) ==
    /\ a # b
    /\ \/ a \in AncSet(t, b)
       \/ \E x \in AncSet(t, a), y \in AncSet(t, b) : LeftOf(t, x, y)

\* The nodes whose own role is r.
WithRole(t, r) == { n \in NodeIds(t) : t.inner[n].data.role = r }

\* n is the node of role r that comes first in preorder; None when no node
\* has role r.
IsFirstInPreorder(t, r, n) ==
    IF WithRole(t, r) = {} THEN n = None
    ELSE /\ n \in WithRole(t, r)
         /\ \A m \in WithRole(t, r) \ {n} : Before(t, n, m)

\* The tree the last query ran on.
Asked == TheTree(answer.flavor)

\* The last query was op, on a tree of either flavor.
Answered(op) == answer.op = op

\* The last query was op, on a tree on which build_rolesets has completed.
AnsweredIndexed(op) == answer.op = op /\ builds[answer.flavor] >= 1

\* The summary of node n of the queried tree does not contain the queried
\* role: the subtree of n is pruned.
Pruned(n) ==
    ~RoleSetContains(HasRoleRoleset(answer.flavor, Asked.inner[n].data), RoleSetFrom(answer.role))

\* ------------------------------------------------------------------------
\* Properties
\* ------------------------------------------------------------------------
\* C1: for every role R and every tree, find_first(R) is the node of own
\* role R that comes earliest in preorder (root included, parent before
\* children, siblings left to right), and None exactly when no node has role R.
C1_FindFirstIsPreorderFirst ==
    Answered("find_first") => IsFirstInPreorder(Asked, answer.role, answer.node)

\* find_first has answered a node that is not the root, and a second node
\* of the role comes later.
C1_Witness ==
    /\ Answered("find_first")
    /\ answer.node # None
    /\ answer.node # Asked.root
    /\ Cardinality(WithRole(Asked, answer.role)) >= 2

\* C2: on an indexed tree of either flavor, find_first_roleset(R) returns
\* the node find_first(R) returns (None when that is None), for every role R.
C2_FindFirstRolesetAgrees ==
    AnsweredIndexed("find_first_roleset") => answer.node = find_first(Asked, answer.role)

\* find_first_roleset has answered a node on an indexed tree in which a
\* subtree standing before the answer is pruned for the role.
C2_Witness ==
    /\ AnsweredIndexed("find_first_roleset")
    /\ answer.node # None
    /\ \E n \in NodeIds(Asked) : Before(Asked, n, answer.node) /\ Pruned(n)

\* C3: on an indexed tree of either flavor, find_first_stack(R) returns the
\* node find_first(R) returns (None when that is None), for every role R.
C3_FindFirstStackAgrees ==
    AnsweredIndexed("find_first_stack") => answer.node = find_first(Asked, answer.role)

\* find_first_stack has answered a node on an indexed tree in which a
\* subtree standing before the answer is pruned for the role, and the
\* answer has a sibling to its right that is not pruned.
C3_Witness ==
    /\ AnsweredIndexed("find_first_stack")
    /\ answer.node # None
    /\ \E n \in NodeIds(Asked) : Before(Asked, n, answer.node) /\ Pruned(n)
    /\ \E m \in NodeIds(Asked) : LeftOf(Asked, answer.node, m) /\ ~Pruned(m)

\* C4: on an indexed tree, par_find_first_roleset(R) returns the node the
\* sequential find_first(R) returns, whatever order the walk of the forked
\* subtrees takes and wherever the work is split.
C4_ParFindFirstRolesetAgrees ==
    AnsweredIndexed("par_find_first_roleset") => answer.node = find_first(Asked, answer.role)

\* C5: for every role R and every tree built by from_root_node,
\* par_find_first(R) returns the node the sequential find_first(R) returns,
\* for every size of the thread pool and every split of a block.
C5_ParFindFirstAgrees ==
    Answered("par_find_first") => answer.node = find_first(Asked, answer.role)

\* par_find_first has answered a node that is not in the first block, in a
\* tree with a later node of the same role.
C5_Witness ==
    /\ Answered("par_find_first")
    /\ answer.node > MaxThreads
    /\ \E m \in WithRole(Asked, answer.role) : m > answer.node

\* C6: once build_rolesets has completed on the boolean flavor, the roleset
\* of every node is exactly the set of own roles of the nodes of its
\* subtree; the roleset of the root is the set of all roles of the tree.
C6_RolesetIsSubtreeRoles ==
    builds["Tree"] >= 1 =>
        /\ \A n \in NodeIds(tree) :
              tree.inner[n].data.roleset = { tree.inner[m].data.role : m \in Subtree(tree, n) }
        /\ tree.inner[tree.root].data.roleset = { tree.inner[m].data.role : m \in NodeIds(tree) }

\* The build has completed on a tree of three levels, the root of which
\* has a roleset of three roles.
C6_Witness ==
    /\ builds["Tree"] >= 1
    /\ Idle
    /\ \E n \in NodeIds(tree) : Cardinality(AncSet(tree, n)) >= 3
    /\ Cardinality(tree.inner[tree.root].data.roleset) >= 3

\* C7: on an indexed tree of either flavor, how_many_roleset(R) equals
\* how_many(R), the number of nodes of the tree whose own role is R.
C7_HowManyRolesetAgrees ==
    /\ Answered("how_many") => answer.num = Cardinality(WithRole(Asked, answer.role))
    /\ AnsweredIndexed("how_many_roleset") => answer.num = how_many(Asked, answer.role)

\* how_many_roleset has counted two nodes or more, the root among them, in
\* an indexed tree where a subtree is pruned for the role.
C7_Witness ==
    /\ AnsweredIndexed("how_many_roleset")
    /\ answer.num >= 2
    /\ Asked.inner[Asked.root].data.role = answer.role
    /\ \E n \in NodeIds(Asked) : Pruned(n)

\* C8: on an indexed tree, par_how_many(R) and par_how_many_roleset(R) both
\* equal how_many(R), for every split of the work and every order of the walk.
C8_ParHowManyAgrees ==
    /\ AnsweredIndexed("par_how_many") => answer.num = how_many(Asked, answer.role)
    /\ AnsweredIndexed("par_how_many_roleset") => answer.num = how_many(Asked, answer.role)

\* par_how_many_roleset has counted two nodes or more in an indexed tree
\* where a subtree is pruned for the role.
C8_Witness ==
    /\ AnsweredIndexed("par_how_many_roleset")
    /\ answer.num >= 2
    /\ \E n \in NodeIds(Asked) : Pruned(n)

\* C9: for every tree, the tree of the root alone included, max_depth()
\* equals par_max_depth(), for every split of the work.
C9_MaxDepthAgrees ==
    Answered("par_max_depth") => answer.num = max_depth(Asked)

\* par_max_depth has answered on the tree of the root alone.
C9_Witness ==
    /\ Answered("par_max_depth")
    /\ Len(Asked.inner) = 1

RECURSIVE A11yHeight(_), A11yHeightOfAll(_)
\* The number of proper ancestors of the deepest node of an input value.
A11yHeight(node) ==
    IF node.children = <<>> THEN 0 ELSE 1 + A11yHeightOfAll(node.children)

A11yHeightOfAll(kids) ==
    IF kids = <<>> THEN 0
    ELSE LET h == A11yHeight(Head(kids))
             m == A11yHeightOfAll(Tail(kids))
         IN IF h > m THEN h ELSE m

\* The shape A(B, C(D)), whatever the roles.
IsABCD(node) ==
    /\ Len(node.children) = 2
    /\ node.children[1].children = <<>>
    /\ Len(node.children[2].children) = 1
    /\ node.children[2].children[1].children = <<>>

\* C10 as stated: max_depth() is the number of proper ancestors of the
\* deepest node, 0 for the root alone and 2 for A(B, C(D)).
C10_MaxDepthIsProperAncestors ==
    Answered("max_depth") =>
        /\ answer.num = A11yHeight(a11y_node)
        /\ a11y_node.children = <<>> => answer.num = 0
        /\ IsABCD(a11y_node) => answer.num = 2

\* C10 amended: max_depth() is the number of nodes on the path from the root
\* to the deepest node (its proper ancestors and itself), 1 for the root
\* alone and 3 for A(B, C(D)).
C10_MaxDepthCountsTheNode ==
    Answered("max_depth") =>
        /\ answer.num = A11yHeight(a11y_node) + 1
        /\ a11y_node.children = <<>> => answer.num = 1
        /\ IsABCD(a11y_node) => answer.num = 3

\* max_depth has answered on the tree A(B, C(D)).
C10_Witness ==
    /\ Answered("max_depth")
    /\ IsABCD(a11y_node)

\* The elements of a returned Vec.
Elems(list) == { list[i] : i \in 1 .. Len(list) }

\* The own roles of the nodes of a tree.
OwnRoles(t) == { t.inner[n].data.role : n \in NodeIds(t) }

\* C11: on a tree on which build_rolesets has completed, of either flavor,
\* unique_roles(), par_unique_roles() and unique_roles_roleset() each hold
\* exactly the own roles of the nodes of the tree, each role once.
C11_UniqueRolesAreOwnRoles ==
    /\ AnsweredIndexed("unique_roles") \/ AnsweredIndexed("par_unique_roles")
         \/ AnsweredIndexed("unique_roles_roleset")
    => /\ Elems(answer.list) = OwnRoles(Asked)
       /\ Len(answer.list) = Cardinality(OwnRoles(Asked))

\* unique_roles has answered on an indexed count tree of four nodes that
\* share two roles.
C11_Witness ==
    /\ AnsweredIndexed("unique_roles")
    /\ answer.flavor = "TreeCount"
    /\ Len(Asked.inner) = 4
    /\ Len(answer.list) = 2

\* The roles of a Vec ascend strictly by role id.
Ascending(list) == \A i \in 1 .. Len(list) - 1 : list[i] < list[i + 1]

\* C12: for every tree, unique_roles() returns the sequence par_unique_roles()
\* returns, whatever the split of the parallel range: the same roles in the
\* same order, ascending by role id, no role twice.
C12_UniqueRolesIsParUniqueRoles ==
    Answered("unique_roles") =>
        /\ \A split \in Splits : answer.list = par_unique_roles(Asked, split)
        /\ Ascending(answer.list)

\* C13: on the boolean flavor, once build_rolesets has completed, no step
\* of a later call changes the roleset of any node: after the second call
\* every roleset is what it was after the first.
C13_SecondBuildChangesNothing ==
    [][builds["Tree"] >= 1 =>
          \A n \in NodeIds(tree) : tree'.inner[n].data.roleset = tree.inner[n].data.roleset]_vars

\* The second call has completed on a boolean tree of three levels.
C13_Witness ==
    /\ builds["Tree"] = 2
    /\ Idle
    /\ \E n \in NodeIds(tree) : Cardinality(AncSet(tree, n)) >= 3

\* No build_rolesets is running on the count tree.
CountIdle == ~(work.pc # "idle" /\ work.flavor = "TreeCount")

\* The count of node n of the count tree for role r.
CountAt(n, r) == tree_count.inner[n].data.roleset.cnt[r]

\* The number of nodes of the subtree of n, n included, whose own role is r.
SubtreeCount(n, r) ==
    Cardinality({ m \in Subtree(tree_count, n) : tree_count.inner[m].data.role = r })

\* C14: after one call of build_rolesets on the count flavor, the count of
\* every node n for every role r is the number of nodes of the subtree of n,
\* n included, whose own role is r.
C14_CountIsSubtreeCount ==
    (builds["TreeCount"] = 1 /\ CountIdle) =>
        \A n \in NodeIds(tree_count), r \in Roles : CountAt(n, r) = SubtreeCount(n, r)

\* What one call of build_rolesets adds to the count of n for r: one for
\* every node of the subtree with the role, and one more for n itself, which
\* stands first in its own chain of ancestors.
AddedByOneBuild(n, r) ==
    SubtreeCount(n, r) + (IF tree_count.inner[n].data.role = r THEN 1 ELSE 0)

\* C15: on the count flavor, a second call of build_rolesets doubles every
\* count of every node (after k calls a count is k times what one call
\* adds), while the derived RoleSet of every node stays what it was after
\* the first call, the roles of the subtree.
C15_SecondBuildDoubles ==
    (builds["TreeCount"] >= 1 /\ CountIdle) =>
        \A n \in NodeIds(tree_count) :
            /\ \A r \in Roles : CountAt(n, r) = builds["TreeCount"] * AddedByOneBuild(n, r)
            /\ tree_count.inner[n].data.roleset.set =
                   { tree_count.inner[m].data.role : m \in Subtree(tree_count, n) }

\* The second call has completed on a count tree of three levels, the root
\* of which has seen a role four times or more.
C15_Witness ==
    /\ builds["TreeCount"] = 2
    /\ Idle
    /\ \E n \in NodeIds(tree_count) : Cardinality(AncSet(tree_count, n)) >= 3
    /\ \E r \in Roles : CountAt(tree_count.root, r) >= 4

\* C16: on the count flavor, in every state before, during and after
\* build_rolesets, the derived RoleSet of every node holds role r exactly
\* when the count of the node for r is greater than 0.
C16_SetIsSupportOfCounts ==
    \A n \in NodeIds(tree_count), r \in Roles :
        (r \in tree_count.inner[n].data.roleset.set) <=> (CountAt(n, r) > 0)

\* build_rolesets is running on the count tree: one node has a count
\* greater than 1 already, another node has no count yet.
C16_Witness ==
    /\ work.pc = "anc"
    /\ work.flavor = "TreeCount"
    /\ \E n \in NodeIds(tree_count), r \in Roles : CountAt(n, r) > 1
    /\ \E n \in NodeIds(tree_count) : \A r \in Roles : CountAt(n, r) = 0

\* The flavor a query did not run on, and its tree.
OtherFlavor == IF answer.flavor = "Tree" THEN "TreeCount" ELSE "Tree"

Other == TheTree(OtherFlavor)

\* C17: for the same input, once build_rolesets has completed on the
\* boolean tree and on the count tree, the roleset of every node of the
\* boolean tree is the derived RoleSet of the same node of the count tree,
\* and max_depth, unique_roles, par_unique_roles and unique_roles_roleset
\* return on one tree what they return on the other.
C17_FlavorsAgree ==
    (builds["Tree"] >= 1 /\ builds["TreeCount"] >= 1) =>
        /\ NodeIds(tree) = NodeIds(tree_count)
        /\ \A n \in NodeIds(tree) :
              tree.inner[n].data.roleset = tree_count.inner[n].data.roleset.set
        /\ Answered("max_depth") => answer.num = max_depth(Other)
        /\ Answered("unique_roles") => answer.list = unique_roles(Other)
        /\ Answered("par_unique_roles") =>
              \A split \in Splits : answer.list = par_unique_roles(Other, split)
        /\ Answered("unique_roles_roleset") =>
              answer.list = unique_roles_roleset(OtherFlavor, Other)

\* Both trees are indexed, of three levels, and unique_roles_roleset has
\* answered three roles on the count tree.
C17_Witness ==
    /\ builds["Tree"] >= 1
    /\ builds["TreeCount"] >= 1
    /\ Answered("unique_roles_roleset")
    /\ answer.flavor = "TreeCount"
    /\ Len(answer.list) = 3
    /\ \E n \in NodeIds(tree) : Cardinality(AncSet(tree, n)) >= 3

\* The nodes of a tree that have no child.
Childless(t) == { n \in NodeIds(t) : Children(t.inner, n) = <<>> }

\* C18: for every tree, iter_leafs() and par_iter_leafs() collected are the
\* same sequence, whatever the split of the parallel range: the nodes that
\* have no child, each once, in preorder.
C18_LeafsAgree ==
    /\ Answered("iter_leafs") =>
          /\ \A split \in Splits : answer.list = par_iter_leafs(Asked, split)
          /\ Elems(answer.list) = Childless(Asked)
          /\ Len(answer.list) = Cardinality(Childless(Asked))
          /\ \A i, j \in 1 .. Len(answer.list) :
                i < j => Before(Asked, answer.list[i], answer.list[j])
    /\ Answered("par_iter_leafs") => answer.list = iter_leafs(Asked)

\* par_iter_leafs has answered three leafs on a tree that has a node with
\* children.
C18_Witness ==
    /\ Answered("par_iter_leafs")
    /\ Len(answer.list) = 3
    /\ Len(Asked.inner) = 4

RECURSIVE A11yMatches(_, _, _)
\* The node id of the arena is the image of the input value node: the same
\* role, as many children, and the children match one by one in input order.
A11yMatches(node, arena, id) ==
    /\ arena[id].data.role = node.role
    /\ LET cs == Children(arena, id)
       IN /\ Len(cs) = Len(node.children)
          /\ \A i \in 1 .. Len(cs) : A11yMatches(node.children[i], arena, cs[i])

\* The number of nodes whose list of children holds n, each as often as it
\* holds n.
ParentLinks(t, n) ==
    Cardinality({ <<p, i>> \in NodeIds(t) \X (1 .. Len(t.inner)) :
                     /\ i <= Len(Children(t.inner, p))
                     /\ Children(t.inner, p)[i] = n })

\* C19: from_root_node issues the node handles in preorder: the order of
\* the nodes in the arena is the preorder of the tree (parent before its
\* children, children in input order), every node but the root has exactly
\* one parent, and every node of the arena is reachable from the root.
C19_ArenaOrderIsPreorder ==
    \A fl \in Flavors :
        Exists(fl) =>
            LET t == TheTree(fl)
            IN /\ ArenaIds(t.inner) = Descendants(t.inner, t.root)
               /\ A11yMatches(a11y_node, t.inner, t.root)
               /\ t.inner[t.root].parent = None
               /\ ParentLinks(t, t.root) = 0
               /\ \A n \in NodeIds(t) \ {t.root} :
                     /\ t.inner[n].parent \in NodeIds(t)
                     /\ ParentLinks(t, n) = 1
                     /\ \E i \in 1 .. Len(Children(t.inner, t.inner[n].parent)) :
                           Children(t.inner, t.inner[n].parent)[i] = n
               /\ \A n \in NodeIds(t) : t.root \in AncSet(t, n)

\* from_root_node has built the count tree from an input of four nodes, two
\* of them children of the root, the first of which has a child of its own.
C19_Witness ==
    /\ Exists("TreeCount")
    /\ Len(tree_count.inner) = 4
    /\ Len(a11y_node.children) = 2
    /\ Len(a11y_node.children[1].children) = 1

\* The names of the find_first strategies and of the how_many strategies.
FindFirstOps ==
    {"find_first", "par_find_first", "find_first_roleset", "par_find_first_roleset",
     "find_first_stack"}

HowManyOps == {"how_many", "par_how_many", "how_many_roleset", "par_how_many_roleset"}

\* C20: when no node of an indexed tree has the role asked for, every
\* find_first strategy returns None and every how_many strategy returns 0.
C20_AbsentRoleIsNoneAndZero ==
    (builds[answer.flavor] >= 1 /\ WithRole(Asked, answer.role) = {}) =>
        /\ answer.op \in FindFirstOps => answer.node = None
        /\ answer.op \in HowManyOps => answer.num = 0

\* find_first_stack has answered None for a role that no node of an
\* indexed tree of four nodes has.
C20_Witness ==
    /\ AnsweredIndexed("find_first_stack")
    /\ WithRole(Asked, answer.role) = {}
    /\ Len(Asked.inner) = 4
    /\ answer.node = None

\* from_root_node has built the tree of flavor fl and build_rolesets has
\* not touched it yet.
PreBuild(fl) == Exists(fl) /\ builds[fl] = 0 /\ ~(work.pc # "idle" /\ work.flavor = fl)

\* The summary of a node is the identity element.
IsIdentity(fl, data) ==
    IF fl = "Tree" THEN data.roleset = RoleSetDefault
    ELSE data.roleset = RoleSetVecCountDefault

\* C21: right after from_root_node and before build_rolesets the summary of
\* every node is the identity element (no role, all counts zero), so the
\* pruned queries prune everything below the root: find_first_roleset,
\* find_first_stack and par_find_first_roleset return None or the root,
\* never another node, and how_many_roleset counts at most the root.
C21_UnindexedPrunesAll ==
    \A fl \in Flavors :
        PreBuild(fl) =>
            /\ \A n \in NodeIds(TheTree(fl)) : IsIdentity(fl, TheTree(fl).inner[n].data)
            /\ answer.flavor = fl =>
                  /\ answer.op \in {"find_first_roleset", "find_first_stack",
                                    "par_find_first_roleset"}
                        => answer.node \in {None, TheTree(fl).root}
                  /\ answer.op = "how_many_roleset" => answer.num <= 1

\* find_first_stack has answered None on a count tree not indexed yet, for
\* a role that a node below the root has.
C21_Witness ==
    /\ PreBuild("TreeCount")
    /\ Answered("find_first_stack")
    /\ answer.flavor = "TreeCount"
    /\ answer.node = None
    /\ WithRole(tree_count, answer.role) # {}

HandlesValid(t) ==
    /\ t.root \in NodeIds(t)
    /\ \A n \in NodeIds(t) :
          /\ t.inner[n].parent \in NodeIds(t) \cup {None}
          /\ t.inner[n].first_child \in NodeIds(t) \cup {None}
          /\ t.inner[n].last_child \in NodeIds(t) \cup {None}
          /\ t.inner[n].next_sibling \in NodeIds(t) \cup {None}
          /\ t.inner[n].previous_sibling \in NodeIds(t) \cup {None}

\* C23: on a tree built by from_root_node and indexed by build_rolesets no
\* query fails: every handle the queries look up (the root, the links they
\* follow) is the handle of a node, and max_depth and par_max_depth take
\* the maximum over one node at least.
C23_QueriesNeverFail ==
    /\ \A fl \in Flavors : builds[fl] >= 1 => HandlesValid(TheTree(fl))
    /\ AnsweredIndexed("max_depth") =>
          /\ Descendants(Asked.inner, Asked.root) # <<>>
          /\ answer.num # NoMax
          /\ answer.num >= 1
    /\ AnsweredIndexed("par_max_depth") =>
          /\ ArenaIds(Asked.inner) # <<>>
          /\ answer.num >= 1

\* max_depth has answered on an indexed tree made of the root alone.
C23_Witness ==
    /\ AnsweredIndexed("max_depth")
    /\ Len(Asked.inner) = 1
    /\ answer.num = 1

\* The tree the running traversal borrows, and its target as a RoleSet.
Run == TheTree(work.flavor)

Target == RoleSetFrom(work.role)

\* A cursor is alive: running, or ended and not dropped yet.
CursorAlive == work.pc \in {"cursor", "ended", "polled"}

\* The summary of node n of the borrowed tree contains the target role.
SummaryHasTarget(n) == RoleSetContains(HasRoleRoleset(work.flavor, Run.inner[n].data), Target)

\* No node of the subtree of c, c included, has the target role.
NoTargetBelow(c) == \A m \in Subtree(Run, c) : Run.inner[m].data.role # work.role

RECURSIVE PrunedRun(_)
\* The siblings from c on that the cursor passes over in one step: c and
\* its next siblings, as long as their summaries do not contain the target.
PrunedRun(c) ==
    IF c = None THEN {}
    ELSE IF SummaryHasTarget(c) THEN {}
    ELSE {c} \cup PrunedRun(Run.inner[c].next_sibling)

\* The children the cursor skips in its next step.
SkippedByCursor ==
    LET e == work.it.next
    IN IF e = NoEdge \/ e = EndEdge(work.it.root) THEN {}
       ELSE IF e.kind = "Start"
       THEN LET c == Run.inner[e.node].first_child
            IN IF c # None /\ ~SummaryHasTarget(c) THEN {c} ELSE {}
       ELSE PrunedRun(Run.inner[e.node].next_sibling)

\* The children of node v that the filter of the stack search and of the
\* fork/join walk drops.
Dropped(v) ==
    Elems(Children(Run.inner, v))
        \ Elems(FilterContains(work.flavor, Run.inner, Children(Run.inner, v), Target))

\* The children the stack search skips in its next turn.
SkippedByStack ==
    IF work.stack = <<>> \/ Run.inner[Head(work.stack)].data.role = work.role THEN {}
    ELSE Dropped(Head(work.stack))

\* The children the walk has skipped.
SkippedByWalk == UNION { Dropped(v) : v \in Elems(work.walk) }

\* C25: on an indexed tree pruning is safe: whenever the role-filtered
\* cursor, the stack search or the fork/join walk skips a child for the
\* target role R, no node of the subtree of that child, the child included,
\* has own role R.
C25_PruningIsSafe ==
    builds[work.flavor] >= 1 =>
        /\ work.pc = "cursor" => \A c \in SkippedByCursor : NoTargetBelow(c)
        /\ work.pc = "stack" => \A c \in SkippedByStack : NoTargetBelow(c)
        /\ work.pc = "walked" => \A c \in SkippedByWalk : NoTargetBelow(c)

\* On an indexed tree the cursor is about to pass over two siblings in one
\* step, while another node of the tree has the target role.
C25_Witness ==
    /\ builds[work.flavor] >= 1
    /\ work.pc = "cursor"
    /\ Cardinality(SkippedByCursor) >= 2
    /\ WithRole(Run, work.role) # {}

\* The places of the log at which the cursor has handed out Start.
StartPlaces == { i \in 1 .. Len(work.events) : work.events[i].kind = "Start" }

\* C26: in the events of the role-filtered cursor started at the root,
\* Start(n) of a node n other than the root is handed out only if the
\* summary of n contains the target role and Start of the parent of n was
\* handed out before; the nodes entered come in the relative order of the
\* plain preorder walk.
C26_StartsArePrunedPreorder ==
    CursorAlive =>
        \A i \in StartPlaces :
            LET n == work.events[i].node
            IN /\ n # work.it.root =>
                     /\ SummaryHasTarget(n)
                     /\ \E j \in StartPlaces : j < i /\ work.events[j].node = Run.inner[n].parent
               /\ \A j \in StartPlaces : i < j => Before(Run, n, work.events[j].node)

\* The cursor has ended on an indexed tree of four nodes: it has entered
\* three of them and passed over the fourth.
C26_Witness ==
    /\ work.pc = "ended"
    /\ builds[work.flavor] >= 1
    /\ Len(Run.inner) = 4
    /\ Cardinality(StartPlaces) = 3

\* C27: the events of the role-filtered cursor are well nested: every
\* End(n) is preceded by Start(n), every Start(n) is followed by exactly one
\* End(n) once the cursor has ended, and a node skipped by pruning (one
\* whose summary does not contain the target role, the root apart) has no
\* event at all.
C27_EventsWellNested ==
    CursorAlive =>
        /\ \A i \in 1 .. Len(work.events) :
              work.events[i].kind = "End" =>
                  \E j \in StartPlaces : j < i /\ work.events[j].node = work.events[i].node
        /\ work.pc # "cursor" =>
              \A i \in StartPlaces :
                  Cardinality({ j \in 1 .. Len(work.events) :
                                   j > i /\ work.events[j] = EndEdge(work.events[i].node) }) = 1
        /\ \A i \in 1 .. Len(work.events) :
              work.events[i].node # work.it.root => SummaryHasTarget(work.events[i].node)

\* A stack search is alive: running, or returned and not dropped yet.
StackAlive == work.pc \in {"stack", "returned"}

\* C28: in find_first_stack the nodes are taken off the stack in the
\* relative order of the plain preorder walk, no node more than once, and
\* every node on the stack other than the root has a summary that contains
\* the target role; what the loop returns is what find_first_stack returns.
C28_StackPopsInPreorder ==
    StackAlive =>
        /\ \A i, j \in 1 .. Len(work.popped) :
              i < j => Before(Run, work.popped[i], work.popped[j])
        /\ \A k \in 1 .. Len(work.stack) :
              work.stack[k] # Run.root =>
                  NodeRolesetContains(work.flavor, Run.inner[work.stack[k]].data, Target)
        /\ work.pc = "returned" => work.found = find_first_stack(work.flavor, Run, work.role)

\* On an indexed tree two nodes have been taken off the stack and two are
\* on it.
C28_Witness ==
    /\ work.pc = "stack"
    /\ builds[work.flavor] >= 1
    /\ Len(work.popped) >= 2
    /\ Len(work.stack) >= 2

\* The last event the cursor has handed out.
LastEvent == IF work.events = <<>> THEN NoEdge ELSE work.events[Len(work.events)]

\* A build_rolesets is running.
Building == work.pc \in {"leaf", "anc"}

\* C29: on every tree and for every target role, the role-filtered cursor
\* eventually returns no further event, having ended at the leaving event
\* of the traversal root; find_first_stack eventually returns;
\* build_rolesets eventually finishes; and a cursor that has ended stays
\* ended: one more call of next() hands out nothing.
C29_TraversalsTerminate ==
    /\ (work.pc = "cursor") ~> (work.pc = "ended" /\ LastEvent = EndEdge(work.it.root))
    /\ (work.pc = "stack") ~> (work.pc = "returned")
    /\ Building ~> Idle
    /\ [][work.pc \in {"ended", "polled"} =>
              /\ work'.pc \in {"polled", "idle"}
              /\ work'.pc = "polled" =>
                    /\ work'.events = work.events
                    /\ work'.it.next = NoEdge]_vars

\* The cursor has ended on an indexed tree of four nodes after eight
\* events, and next() has been called once more.
C29_Witness ==
    /\ work.pc = "polled"
    /\ builds[work.flavor] >= 1
    /\ Len(work.events) = 8
    /\ LastEvent = EndEdge(work.it.root)

RECURSIVE ParentRead(_)
\* The node whose parent link next_traverse_role reads when it leaves node
\* n: n when it has no next sibling, the last of the siblings passed over
\* when they are all pruned; None when a sibling is entered.
ParentRead(n) ==
    LET next_sibling == Run.inner[n].next_sibling
    IN IF next_sibling = None THEN n
       ELSE IF SummaryHasTarget(next_sibling) THEN None
       ELSE ParentRead(next_sibling)

\* C30: on a tree built by from_root_node the role-filtered cursor started
\* at the root meets no missing parent link: whenever it leaves a node
\* other than the traversal root and finds no next sibling, the node whose
\* parent it reads has a parent, and the cursor has no further event only
\* after the leaving event of the root.
C30_NoMissingParent ==
    CursorAlive =>
        /\ (work.it.next.kind = "End" /\ work.it.next.node # work.it.root) =>
              LET n == ParentRead(work.it.next.node)
              IN n # None =>
                    /\ Run.inner[n].parent # None
                    /\ NextOfNext(work.flavor, Run.inner, work.it, work.it.next) # NoEdge
        /\ work.it.next = NoEdge => LastEvent = EndEdge(work.it.root)

\* The cursor is about to leave a grandchild of the root that has no next
\* sibling, on an indexed tree.
C30_Witness ==
    /\ work.pc = "cursor"
    /\ builds[work.flavor] >= 1
    /\ work.it.next.kind = "End"
    /\ work.it.next.node # None
    /\ Cardinality(AncSet(Run, work.it.next.node)) >= 3
    /\ Run.inner[work.it.next.node].next_sibling = None

\* C24: the result of build_rolesets on the boolean flavor does not depend
\* on the order in which the nodes are processed: whatever the order of
\* the seed-and-propagate steps, when the build has completed the roleset
\* of every node is the same, the set of the own roles of its subtree, which
\* the tree alone determines.
C24_AnyOrderSameRolesets ==
    (builds["Tree"] >= 1 /\ Idle) =>
        \A n \in NodeIds(tree) :
            tree.inner[n].data.roleset = { tree.inner[m].data.role : m \in Subtree(tree, n) }

\* The first build of a tree of four nodes of three roles processes the
\* root last: every other node has been seeded and propagated before it.
C24_Witness ==
    /\ builds["Tree"] = 0
    /\ work.pc = "anc"
    /\ work.leafs = <<tree.root>>
    /\ Len(tree.inner) = 4
    /\ Cardinality(OwnRoles(tree)) = 3
    /\ \A n \in NodeIds(tree) \ {tree.root} : tree.inner[n].data.roleset # RoleSetDefault

====
